---- MODULE Spec2Model ----
(***************************************************************************)
(* async-parallel: the pool scheduler (src/index.ts, pool) and the         *)
(* combinators each, invoke, map, filter, every, some and reduce that run  *)
(* on it.                                                                  *)
(*                                                                         *)
(* One run is modelled: the host program calls one function (Call), the    *)
(* user's callbacks settle one at a time in any order (Settle), and the    *)
(* JavaScript microtask queue runs its jobs in FIFO order: the reactions   *)
(* that pool attached with task().then(...).catch(...) (ThenHandler,       *)
(* PassRejection, CatchHandler), and the jobs that carry the settlement of *)
(* the promise made by new Promise(...) to the promise the host holds      *)
(* (AdoptJob, PoolSettles, Resume).  Everything that the source does       *)
(* synchronously inside one of these steps, the while loop of next()       *)
(* included, is part of the step.                                          *)
(***************************************************************************)
EXTENDS Integers, Sequences, FiniteSets, TLC

\* Longest input list.
MaxLen == 3
\* Largest concurrency value (pool size, options, process-wide default).
MaxSize == 2
\* The producer handed to a bare pool() call answers true at most this often.
MaxTrue == 2

\* JavaScript's undefined: a missing argument, a hole of a sparse array.
undefined == -1

\* Elements of the input lists.  10 passes the test x % 10 === 0, 21 fails it.
Values == {10, 21}
\* The initial value handed to reduce.
Seeds == {1}

Combinators == {"each", "invoke", "map", "filter", "every", "some", "reduce"}
Ops == Combinators \cup {"pool"}

Lists == UNION {[1..n -> Values] : n \in 0..MaxLen}

\* The options argument: absent, a number, or an object {concurrency: n}.
OptionValues ==
    {[kind |-> "undefined", value |-> 0]}
        \cup [kind : {"number", "object"}, value : 0..MaxSize]

VARIABLES
    op,           \* the function the host program calls
    input,        \* the caller's list as it is when the function is called
    caller,       \* the caller's list, which the caller may change later
    given,        \* what the caller passed as list: array, null, undefined
    callback,     \* the test handed to filter, every and some
    options,      \* the caller's options argument (pool: the size argument)
    seed,         \* reduce's initial value
    concurrency,  \* the process-wide default (export var concurrency)
    pstate,       \* the returned promise: idle, pending, resolved, rejected
    inner,        \* pool's new Promise(...): none, pending, resolved, rejected
    linked,       \* whether the promise pool returned follows that promise
    retval,       \* <<>> while it is not settled, then <<v>>: v is what it
                  \* resolved to, or the error it was rejected with
    raw,          \* <<e>> once an exception e has left the executor of new
                  \* Promise(...), which rejects that promise with e
    frame,        \* the set of variables active, done, errors the run's
                  \* call of pool works on: 0 before the call
    heap,         \* the number of such sets created so far
    list,         \* the combinator's private copy, shifted by the producer
    size,         \* pool's size argument
    i,            \* the combinator's index counter
    result,       \* the combinator's accumulator
    active,       \* pool: var active
    done,         \* pool: var done
    errors,       \* pool: var errors
    calls,        \* the user callbacks started so far, in start order
    mq,           \* microtask queue: the jobs of the run
    budget,       \* bare pool: true answers the producer has left
    nsettle,      \* number of resolve()/reject() calls pool has made
    settledBy,    \* the handler that made the first of them
    failures,     \* the calls whose callback failed, in the order they failed
    idle,         \* producer invocations that found nothing to claim, mod 2
    other         \* a second run of the same call: its variables, as a record

vars == <<op, input, caller, given, callback, options, seed, concurrency, pstate, retval, list,
          size, i, result, active, done, errors, calls, mq, budget,
          nsettle, settledBy, failures, idle, other, inner, linked, raw,
          frame, heap>>

----------------------------------------------------------------------------
\* The user's callbacks (inputs of the run; those of the repository's tests).

\* map's callback.
MapAction(x) == x * 10

\* The test of filter, every and some: value % 10 === 0.
Test(x) == x % 10 = 0

\* A test that every element passes: async () => true.
Always(x) == TRUE

\* reduce's callback.
ReduceAction(acc, x) == acc + x

----------------------------------------------------------------------------
\* JavaScript helpers.

\* Mutant of Or: the right operand wins when it is truthy.
Or_PrefersLength(a, b) == IF b # 0 THEN b ELSE a

\* a || b on numbers: 0 is falsy.
Or(a, b) == IF a # 0 THEN a ELSE b

\* a[j] = v on a JavaScript array (j counts from 0): writing past the end
\* leaves holes.
ArraySet(a, j, v) ==
    [k \in 1..(IF j + 1 > Len(a) THEN j + 1 ELSE Len(a)) |->
        IF k = j + 1 THEN v ELSE IF k <= Len(a) THEN a[k] ELSE undefined]

\* a.filter(value => value !== undefined): holes are skipped as well.
RECURSIVE Compact(_)
Compact(a) ==
    IF a = <<>> THEN <<>>
    ELSE IF Head(a) # undefined THEN <<Head(a)>> \o Compact(Tail(a))
    ELSE Compact(Tail(a))

\* Mutant of resolveOptions: a number given as options is not recognised.
resolveOptions_IgnoresNumber(value, default) ==
    IF value.kind = "object" THEN value.value ELSE default

\* Mutant of resolveOptions: an explicit 0 falls back to the default.
resolveOptions_ZeroFallsBack(value, default) ==
    IF value.kind \in {"number", "object"} /\ value.value # 0
    THEN value.value
    ELSE default

\* list.slice(0): a copy of the whole list.
slice(l) == SubSeq(l, 1, Len(l))

\* Mutant of HasElements: if (list), without the length test.
HasElements_NoLengthTest(g, l) == g = "array"

\* if (list && list.length > 0)
HasElements(g, l) == g = "array" /\ Len(l) > 0

resolveOptions(value, default) ==
    IF value.kind = "number" THEN value.value
    ELSE IF value.kind = "object" THEN value.value
    ELSE default

\* var result = ... at the top of each combinator.
InitialResult(o, s0) ==
    CASE o \in {"map", "filter"} -> <<>>
      [] o = "every" -> TRUE
      [] o = "some" -> FALSE
      [] o = "reduce" -> s0
      [] OTHER -> undefined

\* What the combinator returns after await pool(...).
ReturnValue(s) ==
    CASE s.op = "filter" -> Compact(s.result)
      [] s.op \in {"map", "every", "some", "reduce"} -> s.result
      [] OTHER -> undefined

----------------------------------------------------------------------------
\* The run's state as one record, so that the synchronous code can be
\* written as functions from state to state.

State ==
    [op |-> op, seed |-> seed, caller |-> caller, pstate |-> pstate, retval |-> retval,
     list |-> list, size |-> size, i |-> i, result |-> result,
     active |-> active, done |-> done, errors |-> errors, calls |-> calls,
     mq |-> mq, budget |-> budget, nsettle |-> nsettle,
     settledBy |-> settledBy, failures |-> failures, idle |-> idle,
     inner |-> inner, linked |-> linked, raw |-> raw, frame |-> frame,
     heap |-> heap, thrown |-> <<>>]

\* The second run as a step of the first leaves it: the variables active,
\* done and errors of a run are those of its frame, so that a run working on
\* the same frame finds what the step has written.
Seen(o, t) ==
    IF o.frame # 0 /\ o.frame = t.frame
    THEN [o EXCEPT !.active = t.active, !.done = t.done, !.errors = t.errors]
    ELSE o

Becomes(s) ==
    \E t \in {s} :
        /\ mq' = t.mq
        /\ linked' = t.linked
        /\ inner' = t.inner
        /\ pstate' = t.pstate
        /\ active' = t.active
        /\ done' = t.done
        /\ calls' = t.calls
        /\ list' = t.list
        /\ size' = t.size
        /\ i' = t.i
        /\ errors' = t.errors
        /\ budget' = t.budget
        /\ nsettle' = t.nsettle
        /\ settledBy' = t.settledBy
        /\ failures' = t.failures
        /\ idle' = t.idle
        /\ caller' = t.caller
        /\ result' = t.result
        /\ retval' = t.retval
        /\ raw' = t.raw
        /\ frame' = t.frame
        /\ heap' = t.heap
        /\ other' = Seen(other, t)
        /\ UNCHANGED <<op, input, given, callback, options, seed, concurrency>>

\* The error of calling undefined, where the other errors are numbered by
\* the call that failed.
TypeError == 0

\* Reactions waiting in the microtask queue.
Fulfilled(more) == [kind |-> "then", ok |-> TRUE, more |-> more, err |-> 0]
Rejected(e) == [kind |-> "then", ok |-> FALSE, more |-> FALSE, err |-> e]
Caught(e) == [kind |-> "catch", ok |-> FALSE, more |-> FALSE, err |-> e]

\* The other jobs of a run.  pool is an async function that returns the
\* promise it made with new Promise(...): the promise of the async function
\* follows that promise from a job queued at the return (Adopt), and is
\* settled by a reaction of that promise (Outer).  A combinator awaits it and
\* goes on in a job of its own (Resumed).
Adopt == [kind |-> "adopt", ok |-> FALSE, more |-> FALSE, err |-> 0]
Outer == [kind |-> "outer", ok |-> FALSE, more |-> FALSE, err |-> 0]
Resumed == [kind |-> "resume", ok |-> FALSE, more |-> FALSE, err |-> 0]

\* The calls in flight, those in which the producer threw before it
\* returned a promise, and those that failed in either way.
Running(cs) == {k \in 1..Len(cs) : cs[k].st = "running"}
Threw(cs) == {k \in 1..Len(cs) : cs[k].st = "threw"}
Failed(cs) == {k \in 1..Len(cs) : cs[k].st \in {"failed", "threw"}}

\* Mutant of More: the producer reports the end one element early.
More_OffByOne(s) ==
    CASE s.op = "every" -> (~s.result) \/ Len(s.list) > 1
      [] s.op = "some" -> s.result \/ Len(s.list) > 1
      [] OTHER -> Len(s.list) > 1

\* Mutant of More: every and some stop claiming once the answer is known.
More_ShortCircuit(s) ==
    CASE s.op = "every" -> s.result /\ Len(s.list) > 0
      [] s.op = "some" -> (~s.result) /\ Len(s.list) > 0
      [] s.op = "example" -> FALSE
      [] OTHER -> Len(s.list) > 0

\* Function.length of the actions of the README's pool example, which are
\* declared without parameters.
ActionLength == 0

\* The boolean the producer closure returns.  The producer of the README's
\* pool example returns action.length > 0.
More(s) ==
    CASE s.op = "every" -> (~s.result) \/ Len(s.list) > 0
      [] s.op = "some" -> s.result \/ Len(s.list) > 0
      [] s.op = "example" -> ActionLength > 0
      [] OTHER -> Len(s.list) > 0

\* Mutant of IndexArg: every combinator passes the counter after i++.
IndexArg_AfterIncrement(s) ==
    CASE s.op \in {"map", "every", "some", "reduce", "filter"} -> s.i + 1
      [] OTHER -> undefined

\* The index argument the producer closure passes to the callback; s is the
\* state in which the closure was entered.
IndexArg(s) ==
    CASE s.op \in {"map", "every", "some", "reduce"} -> s.i
      [] s.op = "filter" -> s.i + 1
      [] OTHER -> undefined

\* Mutant of Aliased: no function copies the list before shifting it.
Aliased_NoCopy(o) == o # "pool"

\* Whether the list the producer shifts is the caller's own array: the
\* README's pool example shifts actions itself, the combinators shift the
\* copy they made with slice(0).
Aliased(o) == o = "example"

\* Mutant of Claim: the element is read from the caller's list, at the
\* position the run has come to.
Claim_ReadsCaller(s) ==
    [s EXCEPT
        !.list = Tail(s.list),
        !.i = IF s.op \in {"each", "invoke"} THEN s.i ELSE s.i + 1,
        !.calls = Append(s.calls,
            [arg |-> IF Len(s.calls) < Len(s.caller)
                     THEN s.caller[Len(s.calls) + 1]
                     ELSE undefined,
             index |-> IndexArg(s),
             acc |-> IF s.op = "reduce" THEN s.result ELSE undefined,
             j |-> IF s.op \in {"map", "filter"} THEN s.i ELSE undefined,
             st |-> "running",
             ret |-> undefined,
             late |-> Failed(s.calls) # {}])]

\* Mutant of Claim: the element is taken with list.pop(), from the end.
Claim_Pop(s) ==
    [s EXCEPT
        !.list = SubSeq(s.list, 1, Len(s.list) - 1),
        !.i = IF s.op \in {"each", "invoke"} THEN s.i ELSE s.i + 1,
        !.calls = Append(s.calls,
            [arg |-> s.list[Len(s.list)],
             index |-> IndexArg(s),
             acc |-> IF s.op = "reduce" THEN s.result ELSE undefined,
             j |-> IF s.op \in {"map", "filter"} THEN s.i ELSE undefined,
             st |-> "running",
             ret |-> undefined,
             late |-> Failed(s.calls) # {}])]

\* Mutant of Claim: the element is read with list[0] and stays in the list.
Claim_NoShift(s) ==
    [s EXCEPT
        !.i = IF s.op \in {"each", "invoke"} THEN s.i ELSE s.i + 1,
        !.calls = Append(s.calls,
            [arg |-> Head(s.list),
             index |-> IndexArg(s),
             acc |-> IF s.op = "reduce" THEN s.result ELSE undefined,
             j |-> IF s.op \in {"map", "filter"} THEN s.i ELSE undefined,
             st |-> "running",
             ret |-> undefined,
             late |-> Failed(s.calls) # {}])]

\* The producer closure claims the next element and starts the callback on
\* it: everything up to the await.
Claim(s) ==
    [s EXCEPT
        !.list = Tail(s.list),
        !.caller = IF Aliased(s.op) /\ s.caller # <<>>
                   THEN Tail(s.caller) ELSE s.caller,
        !.i = IF s.op \in {"each", "invoke"} THEN s.i ELSE s.i + 1,
        !.calls = Append(s.calls,
            [arg |-> Head(s.list),
             index |-> IndexArg(s),
             acc |-> IF s.op = "reduce" THEN s.result ELSE undefined,
             j |-> IF s.op \in {"map", "filter"} THEN s.i ELSE undefined,
             st |-> "running",
             ret |-> undefined,
             late |-> Failed(s.calls) # {}])]

\* Mutant of Continue: map stores with result.push(r), in completion order.
Continue_Push(s, k, r) ==
    LET c == s.calls[k] IN
    CASE s.op = "map" -> [s EXCEPT !.result = Append(s.result, r)]
      [] s.op = "filter" ->
            IF r THEN [s EXCEPT !.result = ArraySet(s.result, c.j, c.arg)]
            ELSE s
      [] s.op = "every" -> IF ~r THEN [s EXCEPT !.result = FALSE] ELSE s
      [] s.op = "some" -> IF r THEN [s EXCEPT !.result = TRUE] ELSE s
      [] s.op = "reduce" -> [s EXCEPT !.result = r]
      [] OTHER -> s

\* Mutant of Continue: filter stores with result.push(value), in completion
\* order.
Continue_FilterPush(s, k, r) ==
    LET c == s.calls[k] IN
    CASE s.op = "map" -> [s EXCEPT !.result = ArraySet(s.result, c.j, r)]
      [] s.op = "filter" ->
            IF r THEN [s EXCEPT !.result = Append(s.result, c.arg)] ELSE s
      [] s.op = "every" -> IF ~r THEN [s EXCEPT !.result = FALSE] ELSE s
      [] s.op = "some" -> IF r THEN [s EXCEPT !.result = TRUE] ELSE s
      [] s.op = "reduce" -> [s EXCEPT !.result = r]
      [] OTHER -> s

\* Mutant of Continue: every keeps the result of the callback that completed
\* last.
Continue_EveryLast(s, k, r) ==
    LET c == s.calls[k] IN
    CASE s.op = "map" -> [s EXCEPT !.result = ArraySet(s.result, c.j, r)]
      [] s.op = "filter" ->
            IF r THEN [s EXCEPT !.result = ArraySet(s.result, c.j, c.arg)]
            ELSE s
      [] s.op = "every" -> [s EXCEPT !.result = r]
      [] s.op = "some" -> IF r THEN [s EXCEPT !.result = TRUE] ELSE s
      [] s.op = "reduce" -> [s EXCEPT !.result = r]
      [] OTHER -> s

\* Mutant of Continue: some keeps the result of the callback that completed
\* last.
Continue_SomeLast(s, k, r) ==
    LET c == s.calls[k] IN
    CASE s.op = "map" -> [s EXCEPT !.result = ArraySet(s.result, c.j, r)]
      [] s.op = "filter" ->
            IF r THEN [s EXCEPT !.result = ArraySet(s.result, c.j, c.arg)]
            ELSE s
      [] s.op = "every" -> IF ~r THEN [s EXCEPT !.result = FALSE] ELSE s
      [] s.op = "some" -> [s EXCEPT !.result = r]
      [] s.op = "reduce" -> [s EXCEPT !.result = r]
      [] OTHER -> s

\* The continuation of the producer closure after await action(...), for
\* call k whose callback resolved to r.
Continue(s, k, r) ==
    LET c == s.calls[k] IN
    CASE s.op = "map" -> [s EXCEPT !.result = ArraySet(s.result, c.j, r)]
      [] s.op = "filter" ->
            IF r THEN [s EXCEPT !.result = ArraySet(s.result, c.j, c.arg)]
            ELSE s
      [] s.op = "every" -> IF ~r THEN [s EXCEPT !.result = FALSE] ELSE s
      [] s.op = "some" -> IF r THEN [s EXCEPT !.result = TRUE] ELSE s
      [] s.op = "reduce" -> [s EXCEPT !.result = r]
      [] OTHER -> s

\* What the callback of call c resolves to.
ActionResult(o, c) ==
    CASE o = "map" -> MapAction(c.arg)
      [] o \in {"filter", "every", "some"} ->
            IF callback = "always" THEN Always(c.arg) ELSE Test(c.arg)
      [] o = "reduce" -> ReduceAction(c.acc, c.arg)
      [] OTHER -> undefined

\* Call k of the producer comes to its end, which settles the producer's
\* promise; pool's reaction is queued then, or at once when pool attaches it
\* to a promise that is settled already.  fails: the callback throws.
\* more: the answer of a bare pool()'s producer.
AfterSettle(s, k, fails, more) ==
    IF fails THEN
        [s EXCEPT !.calls[k].st = "failed",
                  !.failures = Append(s.failures, k),
                  !.mq = Append(s.mq, Rejected(k))]
    ELSE IF s.op = "pool" THEN
        [s EXCEPT !.calls[k].st = "ok",
                  !.budget = IF more THEN s.budget - 1 ELSE s.budget,
                  !.mq = Append(s.mq, Fulfilled(more))]
    ELSE
        LET r == ActionResult(s.op, s.calls[k])
            t == Continue([s EXCEPT !.calls[k].st = "ok",
                                    !.calls[k].ret = r], k, r)
        IN [t EXCEPT !.mq = Append(t.mq, Fulfilled(More(t)))]

\* How a call of task() ends before pool attaches its reaction.  A bare
\* pool's producer may return a promise that is still pending, or one that
\* is settled already: fulfilled with true or false (async () => false), or
\* rejected (an async producer throws); a producer that is not an async
\* function may also throw before it returns a promise (raises), and the
\* exception leaves task() and next().  A combinator's producer is an async
\* function that awaits the callback, so its promise is pending at the
\* return unless the callback throws before it returns a promise.
Hows == {"pending", "true", "false", "throws", "raises"}

SyncHows(o) == IF o = "pool" THEN Hows ELSE {"pending", "throws"}

\* hows says how the calls of task() made in one job end, by the number of
\* the call in calls.
How(hows, k) == IF k \in DOMAIN hows THEN hows[k] ELSE "pending"

\* The call just started ends as how says.
Returned(s, how) ==
    LET k == Len(s.calls) IN
    CASE how = "raises" ->
            [s EXCEPT !.calls[k].st = "threw",
                      !.failures = Append(s.failures, k),
                      !.thrown = <<k>>]
      [] how = "throws" -> AfterSettle(s, k, TRUE, FALSE)
      [] how = "true" -> AfterSettle(s, k, FALSE, TRUE)
      [] how = "false" -> AfterSettle(s, k, FALSE, FALSE)
      [] OTHER -> s

\* One call of task(), up to the return of its promise.  A combinator's
\* producer with nothing left to claim returns at once, so its promise is
\* fulfilled when pool attaches the reaction.  The producer of a bare pool()
\* call always starts a unit of work.  The producer of the README's pool
\* example calls what actions.shift() returned without a test, which throws
\* a TypeError when the list is empty.
task(s, hows) ==
    IF s.op = "pool" THEN
        Returned([s EXCEPT !.calls = Append(s.calls,
                    [arg |-> undefined, index |-> undefined,
                     acc |-> undefined, j |-> undefined, st |-> "running",
                     ret |-> undefined, late |-> Failed(s.calls) # {}])],
                 How(hows, Len(s.calls) + 1))
    ELSE IF Len(s.list) > 0 THEN
        Returned(Claim(s), How(hows, Len(s.calls) + 1))
    ELSE IF s.op = "example" THEN
        [s EXCEPT !.mq = Append(s.mq, Rejected(TypeError))]
    ELSE [s EXCEPT !.mq = Append(s.mq, Fulfilled(More(s))),
                   !.idle = (s.idle + 1) % 2]

\* Mutant of Refill: the loop reads the limit from the options and the
\* default anew instead of using pool's size argument.
Refill_ReadsDefault(s) ==
    s.active < Or(resolveOptions(options, concurrency), s.size) /\ ~s.done

\* Mutant of Refill: a pool runs at least one invocation.
Refill_AtLeastOne(s) == (s.active < s.size \/ s.active = 0) /\ ~s.done

\* Mutant of Refill: active <= size.
Refill_OffByOne(s) == s.active <= s.size /\ ~s.done

\* Mutant of Refill: the loop does not look at done.
Refill_IgnoresDone(s) == s.active < s.size

\* while (active < size && !done)
Refill(s) == s.active < s.size /\ ~s.done

\* Mutant of next: if instead of while, one invocation per call.
next_Once(s, hows) ==
    IF Refill(s) THEN task([s EXCEPT !.active = s.active + 1], hows) ELSE s

\* function next(): the loop goes on until its condition fails or a call
\* of task() throws, which ends next() with active counted up for the call.
RECURSIVE next(_, _)
next(s, hows) ==
    IF s.thrown = <<>> /\ Refill(s)
    THEN next(task([s EXCEPT !.active = s.active + 1], hows), hows)
    ELSE s

\* resolve() and reject(new MultiError(errors)): the first call settles the
\* promise made by new Promise(...), which queues the reaction that settles
\* the promise pool returned if that one follows it already.
Resolve(s, by) ==
    IF s.inner = "pending"
    THEN [s EXCEPT !.inner = "resolved",
                   !.mq = IF s.linked THEN Append(s.mq, Outer) ELSE s.mq,
                   !.nsettle = s.nsettle + 1, !.settledBy = by]
    ELSE [s EXCEPT !.nsettle = s.nsettle + 1]

Reject(s, by) ==
    IF s.inner = "pending"
    THEN [s EXCEPT !.inner = "rejected",
                   !.mq = IF s.linked THEN Append(s.mq, Outer) ELSE s.mq,
                   !.nsettle = s.nsettle + 1, !.settledBy = by]
    ELSE [s EXCEPT !.nsettle = s.nsettle + 1]

\* Mutant of OnFulfilled: the last invocation settles the run only when done
\* was set before.
OnFulfilled_NeedsDone(s0, more, hows) ==
    LET s == [s0 EXCEPT !.active = s0.active - 1] IN
    IF s.active = 0 /\ s.done THEN
        IF Len(s.errors) = 0 THEN Resolve(s, "then") ELSE Reject(s, "then")
    ELSE IF more THEN next(s, hows)
    ELSE [s EXCEPT !.done = TRUE]

\* Mutant of OnFulfilled: the success handler resolves without looking at
\* errors.
OnFulfilled_AlwaysResolves(s0, more, hows) ==
    LET s == [s0 EXCEPT !.active = s0.active - 1] IN
    IF s.active = 0 /\ (s.done \/ ~more) THEN Resolve(s, "then")
    ELSE IF more THEN next(s, hows)
    ELSE [s EXCEPT !.done = TRUE]

\* Mutant of OnFulfilled: the last invocation settles the run only on a
\* false result, whether or not the run is draining.
OnFulfilled_IgnoresDone(s0, more, hows) ==
    LET s == [s0 EXCEPT !.active = s0.active - 1] IN
    IF s.active = 0 /\ ~more THEN
        IF Len(s.errors) = 0 THEN Resolve(s, "then") ELSE Reject(s, "then")
    ELSE IF more THEN next(s, hows)
    ELSE [s EXCEPT !.done = TRUE]

\* Mutant of OnFulfilled: the last invocation settles the run whatever its
\* result.
OnFulfilled_SettlesWhenIdle(s0, more, hows) ==
    LET s == [s0 EXCEPT !.active = s0.active - 1] IN
    IF s.active = 0 THEN
        IF Len(s.errors) = 0 THEN Resolve(s, "then") ELSE Reject(s, "then")
    ELSE IF more THEN next(s, hows)
    ELSE [s EXCEPT !.done = TRUE]

\* .then(more => ...)
OnFulfilled(s0, more, hows) ==
    LET s == [s0 EXCEPT !.active = s0.active - 1] IN
    IF s.active = 0 /\ (s.done \/ ~more) THEN
        IF Len(s.errors) = 0 THEN Resolve(s, "then") ELSE Reject(s, "then")
    ELSE IF more THEN next(s, hows)
    ELSE [s EXCEPT !.done = TRUE]

\* Mutant of OnRejected: reject without waiting for active to reach 0.
OnRejected_RejectsAtOnce(s0, err) ==
    LET s == [s0 EXCEPT !.errors = Append(s0.errors, err), !.done = TRUE,
                        !.active = s0.active - 1] IN
    Reject(s, "catch")

\* Mutant of OnRejected: errors.unshift(err).
OnRejected_Unshift(s0, err) ==
    LET s == [s0 EXCEPT !.errors = <<err>> \o s0.errors, !.done = TRUE,
                        !.active = s0.active - 1] IN
    IF s.active = 0 THEN Reject(s, "catch") ELSE s

\* Mutant of OnRejected: the handler does not count the invocation out.
OnRejected_KeepsActive(s0, err) ==
    LET s == [s0 EXCEPT !.errors = Append(s0.errors, err), !.done = TRUE] IN
    IF s.active = 0 THEN Reject(s, "catch") ELSE s

\* Mutant of OnRejected: the handler counts the invocation out twice.
OnRejected_DecrementsTwice(s0, err) ==
    LET s == [s0 EXCEPT !.errors = Append(s0.errors, err), !.done = TRUE,
                        !.active = s0.active - 2] IN
    IF s.active = 0 THEN Reject(s, "catch") ELSE s

\* .catch(err => ...)
OnRejected(s0, err) ==
    LET s == [s0 EXCEPT !.errors = Append(s0.errors, err), !.done = TRUE,
                        !.active = s0.active - 1] IN
    IF s.active = 0 THEN Reject(s, "catch") ELSE s

\* new Promise(executor): an exception that leaves the executor rejects the
\* promise with that exception.  No reaction is queued, as nothing follows
\* the promise before pool has returned it.
ExecutorReturns(t) ==
    IF t.thrown = <<>> THEN t
    ELSE [t EXCEPT !.thrown = <<>>, !.inner = "rejected", !.raw = t.thrown]

\* Mutant of pool: active, done and errors are declared once, outside the
\* function, and every call sets them anew.
pool_SharedState(s, n, hows) ==
    LET t == next([s EXCEPT !.size = n, !.pstate = "pending",
                            !.inner = "pending", !.frame = 1, !.heap = 1,
                            !.active = 0, !.done = FALSE, !.errors = <<>>],
                  hows)
        u == ExecutorReturns(t)
    IN [u EXCEPT !.mq = Append(u.mq, Adopt)]

\* pool(size, task): active, done and errors are declared in the function,
\* so every call has a set of its own; the promise's executor calls next()
\* once, and the async function returns the promise.
pool(s, n, hows) ==
    LET t == next([s EXCEPT !.size = n, !.pstate = "pending",
                            !.inner = "pending", !.frame = s.heap + 1,
                            !.heap = s.heap + 1, !.active = 0,
                            !.done = FALSE, !.errors = <<>>], hows)
        u == ExecutorReturns(t)
    IN [u EXCEPT !.mq = Append(u.mq, Adopt)]

----------------------------------------------------------------------------
\* The settings of the runs of Spec: no limit given and the default left at
\* 0 (unlimited), or an explicit limit of 1..MaxSize.
Settings ==
    {[options |-> o, concurrency |-> 0] :
        o \in {[kind |-> "undefined", value |-> 0]}
                \cup [kind : {"number"}, value : 1..MaxSize]}

\* The state before the call, for the functions in ops on the lists in
\* lists under the settings in settings.  pool takes its size directly.
\* In place of an empty list a combinator may be handed null or undefined.
InitWith(ops, lists, settings, callbacks) ==
    /\ op \in ops
    /\ callback \in (IF op = "filter" THEN callbacks ELSE {"test"})
    /\ input \in (IF op = "pool" THEN {<<>>} ELSE lists)
    /\ caller = input
    /\ given \in (IF op \in Combinators /\ input = <<>>
                  THEN {"array", "null", "undefined"}
                  ELSE {"array"})
    /\ \E c \in settings :
            /\ options = c.options
            /\ concurrency = c.concurrency
            /\ op \notin Combinators => c.options.kind = "number"
    /\ seed \in (IF op = "reduce" THEN Seeds ELSE {0})
    /\ pstate = "idle"
    /\ retval = <<>>
    /\ list = <<>>
    /\ size = 0
    /\ i = 0
    /\ result = InitialResult(op, seed)
    /\ active = 0
    /\ done = FALSE
    /\ errors = <<>>
    /\ calls = <<>>
    /\ mq = <<>>
    /\ budget = MaxTrue
    /\ nsettle = 0
    /\ settledBy = "none"
    /\ failures = <<>>
    /\ idle = 0
    /\ inner = "none"
    /\ linked = FALSE
    /\ raw = <<>>
    /\ frame = 0
    /\ heap = 0
    /\ other = State

\* The same with the test of the repository's tests as callback.
InitFor(ops, lists, settings) == InitWith(ops, lists, settings, {"test"})

\* One list of each length, passing and failing elements in turn.
Alternating(n) == [k \in 1..n |-> IF k % 2 = 1 THEN 10 ELSE 21]

AlternatingLists == {Alternating(n) : n \in 0..MaxLen}

\* The lists a function is run on.  each and invoke do not look at the
\* elements; filter has a specification of its own (SpecFilter).
ListsOf(o) ==
    IF o \in {"each", "invoke", "filter"} THEN AlternatingLists ELSE Lists

Init == \E o \in Ops : InitFor({o}, ListsOf(o), Settings)

\* The host program calls the function.  A combinator on an empty list, on
\* null or on undefined returns its initial result without calling pool.
Called(s0, hows) ==
    LET s == [s0 EXCEPT !.result = InitialResult(op, seed)] IN
    IF op = "pool" THEN pool(s, options.value, hows)
    ELSE IF op = "example" THEN
        pool([s EXCEPT !.list = caller], options.value, hows)
    ELSE IF HasElements(given, caller) THEN
        pool([s EXCEPT !.list = slice(caller)],
             Or(resolveOptions(options, concurrency), Len(caller)), hows)
    ELSE [s EXCEPT !.pstate = "resolved", !.retval = <<ReturnValue(s)>>]

\* The ways the calls of task() made by one job can end: t is the state the
\* job leaves when every call returns a pending promise, which tells the
\* calls it can make.  A bare pool makes no call after one that threw.
Scripts(s, t, allowed) ==
    IF s.op = "pool"
    THEN {hows \in [(Len(s.calls) + 1)..Len(t.calls) ->
                        allowed \cap SyncHows(s.op)] :
            \A a, b \in DOMAIN hows :
                (a < b /\ hows[a] = "raises") => hows[b] = "pending"}
    ELSE [(Len(s.calls) + 1)..Len(t.calls) -> allowed \cap SyncHows(s.op)]

\* The call, with producer calls that end in one of the allowed ways.  The
\* producer of a bare pool answers true no more than its budget allows.
CallWith(allowed) ==
    /\ pstate = "idle"
    /\ \E hows \in Scripts(State, Called(State, <<>>), allowed) :
        \E t \in {Called(State, hows)} :
            /\ t.budget >= 0
            /\ Becomes(t)

Call == CallWith(Hows)

\* The callback of call k, which the producer closure awaits, settles.
\* fails: the callback throws.  more: the answer of a bare pool()'s
\* producer.
CanSettle(s, k, fails, more) ==
    /\ s.pstate # "idle"
    /\ k \in Running(s.calls)
    /\ ~fails =>
            IF s.op = "pool" THEN more => s.budget > 0 ELSE ~more

Settle(k, fails, more) ==
    /\ CanSettle(State, k, fails, more)
    /\ Becomes(AfterSettle(State, k, fails, more))

\* The success handler has run.  If an exception left it, the promise
\* .then(...) returned is rejected with it, which queues the reaction of
\* .catch(...) on that promise.
HandlerReturns(t) ==
    IF t.thrown = <<>> THEN t
    ELSE [t EXCEPT !.thrown = <<>>,
                   !.mq = Append(t.mq, Caught(t.thrown[1]))]

\* The microtask queue runs the reaction of a fulfilled producer promise.
ThenHandlerWith(allowed) ==
    /\ mq # <<>>
    /\ Head(mq).kind = "then"
    /\ Head(mq).ok
    /\ \E s \in {[State EXCEPT !.mq = Tail(mq)]} :
        \E hows \in Scripts(s, OnFulfilled(s, Head(mq).more, <<>>), allowed) :
        \E t \in {HandlerReturns(OnFulfilled(s, Head(mq).more, hows))} :
            /\ t.budget >= 0
            /\ Becomes(t)

ThenHandler == ThenHandlerWith(Hows)

\* A rejected producer promise has no rejection handler in .then(...): the
\* rejection passes to the promise .then returned, whose .catch reaction is
\* queued behind everything already waiting.
PassRejection ==
    /\ mq # <<>>
    /\ Head(mq).kind = "then"
    /\ ~Head(mq).ok
    /\ Becomes([State EXCEPT !.mq = Append(Tail(mq), Caught(Head(mq).err))])

CatchHandler ==
    /\ mq # <<>>
    /\ Head(mq).kind = "catch"
    /\ Becomes(OnRejected([State EXCEPT !.mq = Tail(mq)], Head(mq).err))

\* class MultiError extends Error, with the list it was made with.
MultiError(list_) == [name |-> "MultiError", list |-> list_]

\* An error that is no MultiError, with itself in the place of the list.
PlainError(e) == [name |-> "Error", list |-> <<e>>]

\* The promise the host holds settles as the promise made by new
\* Promise(...) did: a combinator returns its result or rethrows; the error
\* is the MultiError made of pool's errors, or the exception that left the
\* executor.
HostSettles(s) ==
    [s EXCEPT !.pstate = s.inner,
              !.retval = <<IF s.inner # "rejected" THEN ReturnValue(s)
                           ELSE IF s.raw # <<>> THEN PlainError(s.raw[1])
                           ELSE MultiError(s.errors)>>]

\* The job queued when pool returned runs: the returned promise now follows
\* the promise made by new Promise(...), and the reaction is queued at once
\* if that promise is settled already.
AfterAdopt(s) ==
    [s EXCEPT !.linked = TRUE,
              !.mq = IF s.inner = "pending" THEN Tail(s.mq)
                     ELSE Append(Tail(s.mq), Outer)]

AdoptJob ==
    /\ mq # <<>>
    /\ Head(mq).kind = "adopt"
    /\ Becomes(AfterAdopt(State))

\* The promise pool returned settles.  The host holds it after a bare call
\* of pool; a combinator that awaits it goes on in a job of its own.
AfterOuter(s) ==
    IF s.op \in Combinators
    THEN [s EXCEPT !.mq = Append(Tail(s.mq), Resumed)]
    ELSE HostSettles([s EXCEPT !.mq = Tail(s.mq)])

PoolSettles ==
    /\ mq # <<>>
    /\ Head(mq).kind = "outer"
    /\ Becomes(AfterOuter(State))

\* The combinator goes on after await pool(...): it returns its result, or
\* the await throws.
Resume ==
    /\ mq # <<>>
    /\ Head(mq).kind = "resume"
    /\ Becomes(HostSettles([State EXCEPT !.mq = Tail(mq)]))

Next ==
    \/ Call
    \/ \E k \in 1..Len(calls), fails, more \in BOOLEAN : Settle(k, fails, more)
    \/ ThenHandler
    \/ PassRejection
    \/ CatchHandler
    \/ AdoptJob
    \/ PoolSettles
    \/ Resume

Spec == Init /\ [][Next]_vars

\* filter alone, on lists with two different elements that pass the test, so
\* that the order of the output shows.
FilterValues == {10, 20, 21}

FilterLists == UNION {[1..n -> FilterValues] : n \in 0..MaxLen}

SpecFilter == InitFor({"filter"}, FilterLists, Settings) /\ [][Next]_vars

\* The README's pool example: pool(2, producer) over a list of five
\* actions; here also over shorter lists and the other pool sizes.
ExampleLen == 5

ExampleLists == {[k \in 1..n |-> 10] : n \in 0..ExampleLen}

\* The steps of a run of pool called by the host program itself: no
\* combinator waits for it.
NextPool ==
    \/ Call
    \/ \E k \in 1..Len(calls), fails, more \in BOOLEAN : Settle(k, fails, more)
    \/ ThenHandler
    \/ PassRejection
    \/ CatchHandler
    \/ AdoptJob
    \/ PoolSettles

SpecExample ==
    InitFor({"example"}, ExampleLists, Settings) /\ [][NextPool]_vars

\* What the caller may do to its list: shift(), push(21), and overwriting
\* the last element.
Mutations(l) ==
    {Tail(l), Append(l, 21), [l EXCEPT ![Len(l)] = 20]}

\* The caller changes its list while the run is in progress and elements
\* are still unclaimed.
Mutate ==
    /\ op \in Combinators
    /\ pstate = "pending"
    /\ list # <<>>
    /\ caller = input
    /\ caller' \in Mutations(caller)
    /\ UNCHANGED <<op, input, given, callback, options, seed, concurrency,
                   pstate,
                   retval, list, size, i, result, active, done, errors,
                   calls, mq, budget, nsettle, settledBy, failures, idle,
                   other, inner, linked, raw, frame, heap>>

NextMutate ==
    \/ Next
    \/ Mutate

\* The combinators with a caller that changes its list during the run.
SpecMutate ==
    InitFor(Combinators, AlternatingLists, Settings) /\ [][NextMutate]_vars

\* setConcurrency(value), called by the host program before the call or
\* while the run is in progress.
setConcurrency ==
    /\ pstate \in {"idle", "pending"}
    /\ \E value \in 0..MaxSize :
            /\ value # concurrency
            /\ concurrency' = value
    /\ UNCHANGED <<op, input, caller, given, callback, options, seed, pstate,
                   retval,
                   list, size, i, result, active, done, errors, calls, mq,
                   budget, nsettle, settledBy, failures, idle, other, inner,
                   linked, raw, frame, heap>>

NextSetConcurrency ==
    \/ Next
    \/ setConcurrency

\* The combinators with a host program that changes the default.
SpecSetConcurrency ==
    InitFor(Combinators, AlternatingLists, Settings)
        /\ [][NextSetConcurrency]_vars

\* Lists in which elements may be undefined.
SparseLists == UNION {[1..n -> {10, undefined}] : n \in 0..MaxLen}

\* filter on such lists, with either test.
SpecSparse ==
    InitWith({"filter"}, SparseLists, Settings, {"test", "always"})
        /\ [][Next]_vars

\* The numbers a caller can pass as a limit or as pool size, negative ones
\* included.
SignedSizes == (-1)..MaxSize

\* No limit given or a number, under any default setConcurrency may have
\* left; all numbers from SignedSizes.
SignedSettings ==
    [options : {[kind |-> "undefined", value |-> 0]}
                    \cup [kind : {"number"}, value : SignedSizes],
     concurrency : SignedSizes]

\* All functions under limits and pool sizes of any sign.
SpecSigned == InitFor(Ops, AlternatingLists, SignedSettings) /\ [][Next]_vars

\* Every form of the options argument under every default concurrency that
\* setConcurrency may have left.
OptionSettings == [options : OptionValues, concurrency : 0..MaxSize]

\* The combinators under all option settings.
SpecOptions ==
    InitFor(Combinators, AlternatingLists, OptionSettings) /\ [][Next]_vars

\* The non-empty lists among AlternatingLists.
WorkLists == AlternatingLists \ {<<>>}

\* The JavaScript job queue runs the reaction at its head.
QueueRuns ==
    WF_vars(ThenHandler \/ PassRejection \/ CatchHandler
                \/ AdoptJob \/ PoolSettles \/ Resume)

\* A callback may settle at any time, from a job of its own, but it is sure
\* to settle only where the timers it waits for can fire: when the job queue
\* is empty.  Then one of the callbacks in flight settles, by resolving or by
\* failing.
CallbacksSettle ==
    WF_vars(/\ mq = <<>>
            /\ \E k \in 1..Len(calls), fails, more \in BOOLEAN :
                    Settle(k, fails, more))

\* each, invoke, map, filter and reduce on a non-empty list, with callbacks
\* that settle once the job queue is empty.
LiveSpec ==
    /\ InitFor({"each", "invoke", "map", "filter", "reduce"},
               WorkLists, Settings)
    /\ [][Next]_vars
    /\ QueueRuns
    /\ CallbacksSettle

\* All functions, bare pool included, with callbacks that settle once the
\* job queue is empty.
LiveDrainSpec ==
    /\ InitFor(Ops, WorkLists, Settings)
    /\ [][Next]_vars
    /\ QueueRuns
    /\ CallbacksSettle

\* The call and the success handler in a run in which no callback fails.
CallOk == CallWith({"pending"})

ThenHandlerOk == ThenHandlerWith({"pending"})

\* The steps of a run in which no callback fails.
NextOk ==
    \/ CallOk
    \/ \E k \in 1..Len(calls) : Settle(k, FALSE, FALSE)
    \/ ThenHandlerOk
    \/ AdoptJob
    \/ PoolSettles
    \/ Resume

\* When the job queue is empty one of the callbacks in flight resolves.
CallbacksResolve ==
    WF_vars(/\ mq = <<>>
            /\ \E k \in 1..Len(calls) : Settle(k, FALSE, FALSE))

\* every and some on a non-empty list, with callbacks that never fail and
\* resolve once the job queue is empty.
LiveTestSpec ==
    /\ InitFor({"every", "some"}, WorkLists, Settings)
    /\ [][NextOk]_vars
    /\ WF_vars(ThenHandlerOk \/ AdoptJob \/ PoolSettles \/ Resume)
    /\ CallbacksResolve

----------------------------------------------------------------------------
\* Two runs in progress at the same time: the host program makes the same
\* call twice before any callback settles.  The first run is in the
\* variables of the module, the second in the record other.  Each run has
\* its own part of the job queue here; the engine's single queue keeps the
\* order of each run's jobs and is one of the interleavings this allows.
\* What a step of one run writes to active, done and errors is written to
\* the run's frame, and is what the other run reads if that is its frame
\* too.
OtherBecomes(s) ==
    \E t \in {s} :
        /\ other' = [t EXCEPT !.heap = 0]
        /\ heap' = t.heap
        /\ IF frame # 0 /\ frame = t.frame
           THEN active' = t.active /\ done' = t.done /\ errors' = t.errors
           ELSE UNCHANGED <<active, done, errors>>
        /\ UNCHANGED <<op, input, caller, given, callback, options, seed,
                       concurrency, pstate, retval, list, size, i, result,
                       calls, mq, budget, nsettle, settledBy, failures, idle,
                       inner, linked, raw, frame>>

\* The second run, which creates its frame after those created so far.
OtherState == [other EXCEPT !.heap = heap]

OtherCall ==
    /\ other.pstate = "idle"
    /\ \E hows \in Scripts(OtherState, Called(OtherState, <<>>), Hows) :
        \E t \in {Called(OtherState, hows)} :
            /\ t.budget >= 0
            /\ OtherBecomes(t)

OtherSettle(k, fails, more) ==
    /\ CanSettle(other, k, fails, more)
    /\ OtherBecomes(AfterSettle(OtherState, k, fails, more))

OtherThenHandler ==
    /\ other.mq # <<>>
    /\ Head(other.mq).kind = "then"
    /\ Head(other.mq).ok
    /\ \E s \in {[OtherState EXCEPT !.mq = Tail(other.mq)]} :
        \E hows \in Scripts(s, OnFulfilled(s, Head(other.mq).more, <<>>),
                             Hows) :
        \E t \in {HandlerReturns(OnFulfilled(s, Head(other.mq).more, hows))} :
            /\ t.budget >= 0
            /\ OtherBecomes(t)

OtherPassRejection ==
    /\ other.mq # <<>>
    /\ Head(other.mq).kind = "then"
    /\ ~Head(other.mq).ok
    /\ OtherBecomes([OtherState EXCEPT
                        !.mq = Append(Tail(other.mq),
                                      Caught(Head(other.mq).err))])

OtherCatchHandler ==
    /\ other.mq # <<>>
    /\ Head(other.mq).kind = "catch"
    /\ OtherBecomes(OnRejected([OtherState EXCEPT !.mq = Tail(other.mq)],
                               Head(other.mq).err))

OtherAdoptJob ==
    /\ other.mq # <<>>
    /\ Head(other.mq).kind = "adopt"
    /\ OtherBecomes(AfterAdopt(OtherState))

OtherPoolSettles ==
    /\ other.mq # <<>>
    /\ Head(other.mq).kind = "outer"
    /\ OtherBecomes(AfterOuter(OtherState))

OtherResume ==
    /\ other.mq # <<>>
    /\ Head(other.mq).kind = "resume"
    /\ OtherBecomes(HostSettles([OtherState EXCEPT !.mq = Tail(other.mq)]))

NextTwo ==
    \/ Next
    \/ OtherCall
    \/ \E k \in 1..Len(other.calls), fails, more \in BOOLEAN :
            OtherSettle(k, fails, more)
    \/ OtherThenHandler
    \/ OtherPassRejection
    \/ OtherCatchHandler
    \/ OtherAdoptJob
    \/ OtherPoolSettles
    \/ OtherResume

\* each and pool, twice: each on lists shorter than MaxLen with a
\* concurrency below MaxSize, and on lists of up to two elements without a
\* limit; pool on its producer with a size of at most one.
TwoLists == {Alternating(n) : n \in 1..(MaxLen - 1)}

TwoSettings ==
    {c \in Settings : c.options.kind = "number" /\ c.options.value < MaxSize}

ShortLists == {l \in TwoLists : Len(l) <= 2}

NoLimit == {c \in Settings : c.options.kind = "undefined"}

PoolTwoSettings == {c \in Settings : c.options.value <= 1}

InitTwo ==
    \/ InitFor({"each"}, TwoLists, TwoSettings)
    \/ InitFor({"each"}, ShortLists, NoLimit)
    \/ InitFor({"pool"}, {Alternating(1)}, PoolTwoSettings)

SpecTwo == InitTwo /\ [][NextTwo]_vars

----------------------------------------------------------------------------
\* Properties.

\* Callbacks (bare pool: producer invocations) started and not yet settled.
InFlight == Cardinality(Running(calls))

\* The values the callbacks were started on, in start order.
Args == [k \in 1..Len(calls) |-> calls[k].arg]

Settled == pstate \in {"resolved", "rejected"}

\* What the settled promise resolved to, or the error it was rejected with.
Value == retval[1]

\* The promise made by new Promise(...) is settled.
PoolSettled == inner \in {"resolved", "rejected"}

\* The reactions of producers' promises among the jobs of a queue.
IsHandler(job) == job.kind \in {"then", "catch"}

Handlers(q) == SelectSeq(q, IsHandler)

\* Producer invocations with a reaction waiting in the job queue.
Waiting == Len(Handlers(mq))

\* C1: in every state of a pool run with size >= 1, the number of producer
\* invocations started and not yet settled is at most size (and so is the
\* scheduler's own counter).
C1_InFlightWithinSize ==
    size >= 1 => (InFlight <= size /\ active <= size)

\* The pool is full again after a refill.
C1_Witness ==
    /\ op = "pool"
    /\ size >= 2
    /\ InFlight = size
    /\ Len(calls) > size

\* C2: a combinator called on a non-empty list with an explicit concurrency
\* c >= 1 never has more than c callbacks started and not yet settled.
C2_CallbacksWithinLimit ==
    (/\ op \in Combinators
     /\ Len(input) > 0
     /\ options.kind = "number"
     /\ options.value >= 1) => InFlight <= options.value

\* A list longer than the limit, the limit reached again after a refill.
C2_Witness ==
    /\ op \in Combinators
    /\ options.kind = "number"
    /\ options.value >= 2
    /\ Len(input) > options.value
    /\ Len(calls) > options.value
    /\ InFlight = options.value

\* C3: when the promise of a pool run is settled, resolved or rejected, no
\* producer invocation is in flight: not when pool calls resolve or reject,
\* and not when the promise the host holds settles.
C3_SettledOnlyWhenDrained ==
    ((PoolSettled \/ Settled) /\ size >= 1) =>
        (Running(calls) = {} /\ active = 0 /\ Waiting = 0)

\* A step of a run that calls task() no time.
NoLaunch ==
    \/ active' = active - 1
    \/ /\ active' = active
       /\ Len(calls') = Len(calls)
       /\ \/ Len(mq') = Len(mq) + 1
          \/ /\ mq # <<>>
             /\ Head(mq).kind = "then"
             /\ ~Head(mq).ok
             /\ mq' = Append(Tail(mq), Caught(Head(mq).err))
          \/ /\ mq # <<>>
             /\ ~IsHandler(Head(mq))
             /\ Handlers(mq') = Handlers(mq)

\* The run is draining: a false result was handled while others were in
\* flight, which sets done, or a failure has been recorded in errors.
Draining == done \/ errors # <<>>

\* C4: once the run is draining it stays draining and no step starts a
\* producer invocation, whatever the invocations still in flight resolve
\* to.
C4_NoLaunchWhileDraining == [][Draining => (done' /\ NoLaunch)]_vars

\* Draining, others in flight, and a true result is about to be handled.
C4_Witness ==
    /\ done
    /\ active > 1
    /\ mq # <<>>
    /\ Head(mq).kind = "then"
    /\ Head(mq).ok
    /\ Head(mq).more

\* C5: pool calls resolve or reject at most once, and has called it exactly
\* once as soon as no invocation of the run is outstanding.
C5_SettlesExactlyOnce ==
    /\ nsettle <= 1
    /\ (size >= 1 /\ active = 0) <=> (nsettle = 1)
    /\ size >= 1 => (PoolSettled <=> nsettle = 1)
    /\ (size >= 1 /\ Settled) => pstate = inner

\* C6: a run ends rejected if and only if a producer invocation of it
\* failed, by a rejected promise or by throwing.
C6_RejectsIffFailed ==
    /\ pstate = "rejected" => Failed(calls) # {}
    /\ pstate = "resolved" => Failed(calls) = {}

\* Rejected by the success handler: the last invocation to settle
\* succeeded, after the producer had thrown in a refill.
C6_Witness ==
    /\ pstate = "rejected"
    /\ settledBy = "then"
    /\ Len(errors) = 1
    /\ Threw(calls) # {}
    /\ calls[Len(calls)].st = "ok"

\* C7: after the first callback has failed no callback is started, and the
\* run rejects only when nothing is in flight.
C7_NoStartAfterFailure ==
    /\ \A k \in 1..Len(calls) : ~calls[k].late
    /\ pstate = "rejected" => Running(calls) = {}

\* C8: the list of the aggregate error holds the failures of the run, each
\* once, in the order in which they failed.
C8_ErrorListExact ==
    pstate = "rejected" => Value = MultiError(failures)

\* C9: each and invoke never start the callback twice on an element, and
\* when they resolve the callback has run once on every element of the
\* input and every one of these calls has settled.
C9_OncePerElement ==
    op \in {"each", "invoke"} =>
        /\ Len(Args) <= Len(input)
        /\ \A k \in 1..Len(Args) : Args[k] = input[k]
        /\ pstate = "resolved" =>
                (Args = input /\ \A k \in 1..Len(calls) : calls[k].st = "ok")

\* each resolved under a limit larger than the list.
C9_Witness ==
    /\ op = "each"
    /\ pstate = "resolved"
    /\ Len(input) >= 1
    /\ size > Len(input)

\* C10: map resolves to the list of the callback's results, in input order.
C10_MapInInputOrder ==
    (op = "map" /\ pstate = "resolved") =>
        Value = [k \in 1..Len(input) |-> MapAction(input[k])]

\* map resolved on a list of distinct neighbours, run two at a time.
C10_Witness ==
    /\ op = "map"
    /\ pstate = "resolved"
    /\ size = 2
    /\ Len(input) > 2
    /\ input[1] # input[2]

\* The elements of a list that pass the test, in the list's order.
Passing(l) == SelectSeq(l, Test)

\* C11: filter resolves to the subsequence of the input made of the elements
\* whose callback resolved true, in input order.
C11_FilterInInputOrder ==
    (op = "filter" /\ pstate = "resolved") => Value = Passing(input)

\* filter resolved on a list with an element dropped in front of two kept
\* ones, run more than one at a time.
C11_Witness ==
    /\ op = "filter"
    /\ pstate = "resolved"
    /\ size >= 2
    /\ Len(input) > 2
    /\ ~Test(input[1])
    /\ Len(Value) = 2
    /\ Value[1] # Value[2]

RECURSIVE SumSeq(_)
SumSeq(l) == IF l = <<>> THEN 0 ELSE Head(l) + SumSeq(Tail(l))

\* C12: reduce with (acc, x) -> acc + x resolves to the seed plus the sum of
\* all elements, whatever the concurrency and the completion order.
C12_ReduceIsLeftFold ==
    (op = "reduce" /\ pstate = "resolved") => Value = seed + SumSeq(input)

\* C15: whenever every resolves, its value is the AND of the test over all
\* elements of the input.
C15_EveryIsAnd ==
    (op = "every" /\ pstate = "resolved") =>
        Value = (\A k \in 1..Len(input) : Test(input[k]))

\* every resolved to false on a list with a passing and a failing element,
\* each of which had its callback run.
C15_Witness ==
    /\ op = "every"
    /\ pstate = "resolved"
    /\ Value = FALSE
    /\ Len(calls) = Len(input)
    /\ \E k \in 1..Len(input) : Test(input[k])

\* C16: whenever some resolves, its value is the OR of the test over all
\* elements of the input.
C16_SomeIsOr ==
    (op = "some" /\ pstate = "resolved") =>
        Value = (\E k \in 1..Len(input) : Test(input[k]))

\* some resolved to true on a list with a passing and a failing element,
\* each of which had its callback run.
C16_Witness ==
    /\ op = "some"
    /\ pstate = "resolved"
    /\ Value = TRUE
    /\ Len(calls) = Len(input)
    /\ \E k \in 1..Len(input) : ~Test(input[k])

\* The result of a combinator that had nothing to do.
EmptyResult ==
    CASE op \in {"map", "filter"} -> <<>>
      [] op = "every" -> TRUE
      [] op = "some" -> FALSE
      [] op = "reduce" -> seed
      [] OTHER -> undefined

\* C18: a combinator called with an empty list, null or undefined starts no
\* callback, does not call pool, and resolves to its empty result.
C18_EmptyInputIsNoOp ==
    (op \in Combinators /\ (given # "array" \/ input = <<>>)) =>
        /\ calls = <<>>
        /\ size = 0 /\ active = 0 /\ mq = <<>> /\ nsettle = 0
        /\ pstate \in {"idle", "resolved"}
        /\ pstate = "resolved" => Value = EmptyResult

\* reduce was called with null and has returned its initial value.
C18_Witness ==
    /\ op = "reduce"
    /\ given = "null"
    /\ seed = 1
    /\ pstate = "resolved"
    /\ Value = 1

\* C19: a combinator called with concurrency 1 has at most one callback in
\* flight, and every callback but the one started last has settled.
C19_SeriesWhenOne ==
    (op \in Combinators /\ resolveOptions(options, concurrency) = 1) =>
        /\ InFlight <= 1
        /\ \A k \in 1..(Len(calls) - 1) : calls[k].st # "running"

\* A list of three elements was worked through one at a time.
C19_Witness ==
    /\ op \in Combinators
    /\ options = [kind |-> "number", value |-> 1]
    /\ size = 1
    /\ Len(input) = 3
    /\ Len(calls) = 3
    /\ pstate = "resolved"

\* A per-call concurrency was given.
Explicit == options.kind \in {"number", "object"}

\* A combinator has called pool.
PoolCalled == op \in Combinators /\ HasElements(given, input) /\ pstate # "idle"

\* C20 as stated: the pool size is the explicit concurrency when given and
\* non-zero, otherwise the default when non-zero, otherwise the length n of
\* the list, and then all n callbacks are started at the call.
C20_SizeAsStated ==
    PoolCalled =>
        /\ size = (IF Explicit /\ options.value # 0 THEN options.value
                   ELSE IF concurrency # 0 THEN concurrency
                   ELSE Len(input))
        /\ size = Len(input) => Len(calls) = Len(input)

\* C20, amended: the pool size is the explicit concurrency when given and
\* non-zero, n when an explicit 0 is given whatever the default is, the
\* default when nothing is given and the default is non-zero, otherwise n;
\* when the size is n all n callbacks are started at the call.
C20_EffectiveSize ==
    PoolCalled =>
        /\ size = (IF Explicit
                   THEN (IF options.value # 0 THEN options.value
                         ELSE Len(input))
                   ELSE IF concurrency # 0 THEN concurrency
                   ELSE Len(input))
        /\ size = Len(input) => Len(calls) = Len(input)

\* An explicit 0 under a non-zero default: all callbacks of a list longer
\* than the default are in flight.
C20_Witness ==
    /\ op \in Combinators
    /\ options = [kind |-> "number", value |-> 0]
    /\ concurrency # 0
    /\ Len(input) > concurrency
    /\ size = Len(input)
    /\ InFlight = Len(input)

\* The callback has been started on every element and has settled on each.
AllCallbacksSettled ==
    /\ Len(calls) = Len(input)
    /\ Running(calls) = {}

\* C13: every, called on a non-empty list, eventually resolves once its
\* callbacks have all settled, none of them failing.
C13_EveryResolves ==
    (op = "every" /\ pstate = "pending" /\ AllCallbacksSettled)
        ~> (pstate = "resolved")

\* C14: some, called on a non-empty list, eventually resolves once its
\* callbacks have all settled, none of them failing.
C14_SomeResolves ==
    (op = "some" /\ pstate = "pending" /\ AllCallbacksSettled)
        ~> (pstate = "resolved")

\* C17: each, invoke, map, filter and reduce, called on a non-empty list
\* with callbacks that all settle, eventually settle.
C17_CombinatorSettles == (pstate = "pending") ~> Settled

\* A run on three elements settled after a callback failed while another was
\* in flight.
C17_Witness ==
    /\ op \in {"each", "invoke", "map", "filter", "reduce"}
    /\ Settled
    /\ Len(input) = 3
    /\ size >= 2
    /\ failures # <<>>
    /\ nsettle = 1

\* A step of a bare pool run in which the reaction to a fulfilled producer
\* promise runs: that reaction is next in the queue and no invocation in
\* flight settles.
PoolThenStep ==
    /\ op = "pool"
    /\ mq # <<>>
    /\ Head(mq).kind = "then"
    /\ Head(mq).ok
    /\ Len(calls') >= Len(calls)
    /\ SubSeq(calls', 1, Len(calls)) = calls

\* C22: in a pool run the reaction to a true result invokes no new instance
\* of the task, and the reaction to a false result invokes one as long as
\* the run is not draining.
C22_TrueStops ==
    [][PoolThenStep =>
        IF Head(mq).more THEN Len(calls') = Len(calls)
        ELSE (~done => Len(calls') > Len(calls))]_vars

\* C25: whenever a handler of a pool run has returned and the run is neither
\* draining nor settled, size invocations are counted active, and once the
\* job queue holds no reaction all of them are waiting for their callback.
C25_RefillIsGreedy ==
    (inner = "pending" /\ ~done) =>
        /\ active = size
        /\ Waiting = 0 => InFlight = size

\* A bare pool was topped up again after results of true, and the job queue
\* is empty.
C25_Witness ==
    /\ op = "pool"
    /\ pstate = "pending"
    /\ ~done
    /\ mq = <<>>
    /\ size >= 2
    /\ Len(calls) >= 2 * size
    /\ InFlight = size

\* C27: in every combinator run, failed ones included, the elements the
\* callback has been started on are the first elements of the input, each
\* once and in order, and the private list holds the rest.
C27_NoElementTwice ==
    op \in Combinators =>
        /\ Len(calls) <= Len(input)
        /\ \A k \in 1..Len(calls) : calls[k].arg = input[k]
        /\ pstate # "idle" =>
                list = SubSeq(input, Len(calls) + 1, Len(input))

\* A run was rejected with two callbacks started, one of them failed, and an
\* element left unclaimed.
C27_Witness ==
    /\ op \in Combinators
    /\ pstate = "rejected"
    /\ Len(calls) >= 2
    /\ Len(calls) < Len(input)
    /\ list # <<>>
    /\ \E k \in 1..Len(calls) : calls[k].st = "ok"

\* C29: map, every, some and reduce pass the callback for the element at
\* input position k (counted from 0) the index k.
C29_IndexIsPosition ==
    op \in {"map", "every", "some", "reduce"} =>
        \A k \in 1..Len(calls) :
            calls[k].arg = input[k] /\ calls[k].index = k - 1

\* reduce started the callback on the third element after a refill.
C29_Witness ==
    /\ op = "reduce"
    /\ size = 2
    /\ Len(calls) = 3
    /\ calls[3].index = 2
    /\ calls[1].st = "ok"

\* C30: filter passes the callback for the element at input position k
\* (counted from 0) the index k.
C30_FilterIndexIsPosition ==
    op = "filter" =>
        \A k \in 1..Len(calls) :
            calls[k].arg = input[k] /\ calls[k].index = k - 1

\* What reduce's k-th callback resolves to in the run in which the callbacks
\* complete in the order they were started, each reaction running at once:
\* the first n callbacks (n the pool size) are handed the initial value, a
\* later one the result of the callback whose completion started it.
RECURSIVE InOrderRet(_, _, _, _)
InOrderRet(l, s0, n, k) ==
    ReduceAction(IF k <= n THEN s0 ELSE InOrderRet(l, s0, n, k - n), l[k])

\* The value a combinator resolves to in that run.
InOrderValue ==
    CASE op = "map" -> [k \in 1..Len(input) |-> MapAction(input[k])]
      [] op = "filter" -> Passing(input)
      [] op = "every" -> \A k \in 1..Len(input) : Test(input[k])
      [] op = "some" -> \E k \in 1..Len(input) : Test(input[k])
      [] op = "reduce" ->
            IF input = <<>> THEN seed
            ELSE InOrderRet(input, seed, size, Len(input))
      [] OTHER -> undefined

\* C24: a combinator run on a given input in which no callback fails
\* resolves to the same value whatever the order in which the callbacks
\* complete: the value of the run in which they complete in start order.
C24_SameOutcomeEveryRun ==
    (op \in Combinators /\ pstate = "resolved") => Value = InOrderValue

\* reduce also has the run in which the callbacks complete in start order.
ReduceInOrderRun ==
    /\ op = "reduce"
    /\ pstate = "resolved"
    /\ size = 2
    /\ Len(input) = 3
    /\ Value = InOrderValue

\* C23: when the pool of the README's example (size 2, five actions)
\* resolves, all five actions have been run to completion.
C23_ExampleRunsAllActions ==
    (/\ op = "example"
     /\ Len(input) = ExampleLen
     /\ options.value = 2
     /\ pstate = "resolved") =>
        /\ Len(calls) = ExampleLen
        /\ \A k \in 1..Len(calls) : calls[k].st = "ok"

\* C21: whatever the caller does to its list during the run, the callback
\* is started on the elements the list had at call time, in their order,
\* and the run resolves to the result for that list.
C21_WorksOnSnapshot ==
    op \in Combinators =>
        /\ Len(calls) <= Len(input)
        /\ \A k \in 1..Len(calls) : calls[k].arg = input[k]
        /\ pstate = "resolved" =>
            /\ Len(calls) = Len(input)
            /\ CASE op \in {"map", "filter", "every", "some"} ->
                        Value = InOrderValue
                 [] op = "reduce" ->
                        \/ input = <<>> /\ Value = seed
                        \/ \E k \in 1..Len(calls) :
                            Value = ReduceAction(calls[k].acc, input[k])
                 [] OTHER -> Value = undefined

\* The caller changed its list after the first callback was started, and
\* the run went through the three elements of the original list.
C21_Witness ==
    /\ op = "map"
    /\ caller # input
    /\ size = 1
    /\ Len(input) = 3
    /\ pstate = "resolved"
    /\ Len(Value) = 3

\* C26: a pool run that is draining is never left pending with no
\* invocation counted active, and it eventually settles.
C26_DrainingRunSettles ==
    /\ [](~(inner = "pending" /\ done /\ active = 0))
    /\ (pstate = "pending" /\ done) ~> Settled

\* A bare pool that began to drain on the exception of a producer that threw
\* in a refill was rejected by the success handler of the invocation that
\* finished last.
C26_Witness ==
    /\ op = "pool"
    /\ size >= 2
    /\ done
    /\ pstate = "rejected"
    /\ settledBy = "then"
    /\ Len(calls) > size
    /\ Threw(calls) # {}

\* C28: in a run of every or some in which no callback fails, the callback
\* is started on the elements of the input in order, each once, and
\* eventually it has been started on every element, also after a result of
\* false (every) or true (some).
C28_NoShortCircuit ==
    /\ [](/\ Len(calls) <= Len(input)
          /\ \A k \in 1..Len(calls) : calls[k].arg = input[k])
    /\ (pstate = "pending") ~> (Len(calls) = Len(input))

\* every, one at a time, ran the callback on the third element after the
\* callback had resolved false on the second.
C28_Witness ==
    /\ op = "every"
    /\ size = 1
    /\ Len(calls) = 3
    /\ calls[2].ret = FALSE
    /\ calls[3].st = "ok"

\* The invocations of a bare pool's producer that have resolved.
Answered == {k \in 1..Len(calls) : calls[k].st = "ok"}

\* Every invocation of a bare pool's producer that has resolved so far has
\* resolved true, and none has failed.
AllTrueSoFar ==
    /\ op = "pool"
    /\ pstate # "idle"
    /\ failures = <<>>
    /\ Cardinality(Answered) = MaxTrue - budget

\* C33: as long as every result of a pool run's producer is true and no
\* invocation fails, the run stays pending and is not draining, size
\* invocations are counted active, and every result handled so far has
\* started a new invocation.
C33_AlwaysTrueNeverSettles ==
    AllTrueSoFar =>
        /\ pstate = "pending"
        /\ inner = "pending"
        /\ ~done
        /\ active = size
        /\ InFlight + Waiting = size
        /\ Len(calls) = size + Cardinality(Answered) - Waiting

\* A pool whose producer has resolved true every time it was allowed to,
\* with all the results handled.
C33_Witness ==
    /\ AllTrueSoFar
    /\ size >= 2
    /\ budget = 0
    /\ mq = <<>>
    /\ Len(calls) = size + MaxTrue

\* C35: the k-th callback a combinator run starts is started on the k-th
\* element of the input.
C35_StartedInInputOrder ==
    op \in Combinators => Args = SubSeq(input, 1, Len(calls))

\* The third callback was started on the third element when the second
\* callback had completed and the first had not.
C35_Witness ==
    /\ op \in Combinators
    /\ Len(calls) = 3
    /\ input[1] # input[2]
    /\ calls[1].st = "running"
    /\ calls[2].st = "ok"
    /\ Args = input

\* C39: pool's counter active is the number of producer invocations whose
\* handler has not run yet: those waiting for their callback and those
\* with a reaction in the job queue.  It is never negative.
C39_ActiveCountsUnhandled ==
    /\ active >= 0
    /\ pstate = "pending" => active = InFlight + Waiting
    /\ Settled => (active = 0 /\ mq = <<>> /\ InFlight = 0)

\* C37: the list the caller passed to a combinator keeps its length and
\* its elements throughout the run and after it, resolved or rejected.
C37_CallerListUntouched ==
    op \in Combinators => caller = input

\* A run was rejected after its private copy had been shifted empty, and
\* the caller's list still has its three elements.
C37_Witness ==
    /\ op \in Combinators
    /\ pstate = "rejected"
    /\ list = <<>>
    /\ Len(calls) = 3
    /\ Len(caller) = 3

\* The README's pool example has shifted actions off the caller's array.
ExampleShiftsCallerList ==
    op = "example" /\ Len(caller) < Len(input)

\* C36: a combinator takes its pool size from the options and the default
\* as they are when it is called; the size then stays what it is whatever
\* setConcurrency does, and the run keeps within it.
C36_DefaultReadAtCall ==
    /\ [][(pstate = "idle" /\ pstate' = "pending") =>
            size' = Or(resolveOptions(options, concurrency), Len(input))]_vars
    /\ [][pstate # "idle" => size' = size]_vars
    /\ [](pstate # "idle" => (InFlight <= size /\ active <= size))

\* A run without an explicit limit goes on one at a time after the default
\* it was started under has been changed.
C36_Witness ==
    /\ op \in Combinators
    /\ options.kind = "undefined"
    /\ pstate = "pending"
    /\ size = 1
    /\ concurrency = 2
    /\ Len(calls) = 2
    /\ InFlight = 1

\* C32: whenever a combinator calls pool, the size it passes is at least 1.
C32_PoolSizeAtLeastOne ==
    PoolCalled => size >= 1

\* C38: pool called with a size of 0 or less starts no invocation of the
\* producer and stays pending.
C38_NoSizeNoRun ==
    (op = "pool" /\ options.value <= 0 /\ pstate # "idle") =>
        /\ pstate = "pending"
        /\ inner = "pending"
        /\ size = options.value
        /\ calls = <<>>
        /\ active = 0
        /\ Waiting = 0
        /\ nsettle = 0

\* pool was called with a negative size.
C38_Witness ==
    /\ op = "pool"
    /\ pstate = "pending"
    /\ size < 0
    /\ calls = <<>>

\* C31: filter resolves to a list with as many elements as callbacks
\* resolved true, also when elements of the input are undefined.
C31_FilterKeepsUndefined ==
    (op = "filter" /\ pstate = "resolved") =>
        Len(Value) =
            Cardinality({k \in 1..Len(calls) :
                            calls[k].st = "ok" /\ calls[k].ret})

\* What a run may hold done for: a failure of one of its own callbacks, or a
\* false answer of its own producer (for each: its own list is used up).
OwnCause(s) ==
    \/ s.failures # <<>>
    \/ IF s.op = "pool"
       THEN \E k \in 1..Len(s.calls) : s.calls[k].st = "ok"
       ELSE s.list = <<>>

\* The scheduler state of the run s follows from s's own callbacks alone:
\* it is at its limit unless it is draining or settled, it is draining only
\* for a cause of its own, active counts its own invocations (those in
\* flight, those with a reaction waiting, and the one whose exception left
\* the executor), and errors holds failures of its own.
OwnState(s) ==
    /\ (s.inner = "pending" /\ ~s.done /\ s.size >= 1) => s.active = s.size
    /\ s.done => OwnCause(s)
    /\ s.pstate # "idle" =>
            s.active = Cardinality(Running(s.calls)) + Len(Handlers(s.mq))
                            + Len(s.raw)
    /\ Len(s.errors) <= Len(s.failures)
    /\ \A k \in 1..Len(s.errors) :
            \E j \in 1..Len(s.failures) : s.errors[k] = s.failures[j]
    /\ s.pstate = "rejected" => s.failures # <<>>

\* The variables of the first run.
RunVars ==
    <<pstate, retval, list, size, i, result, active, done, errors, calls, mq,
      budget, nsettle, settledBy, failures, idle, inner, linked, raw, frame>>

\* C34: two runs in progress at the same time share no scheduler state.
\* Their calls of pool work on different sets of the variables active, done
\* and errors.  Each run launches up to its own limit until one of its own
\* callbacks fails or its own producer answers false, counts its own
\* invocations, and collects its own failures; a step of one run changes
\* nothing in the other.
C34_RunsShareNothing ==
    /\ []((frame # 0 /\ other.frame # 0) => frame # other.frame)
    /\ [](OwnState(State) /\ OwnState(other))
    /\ [][(other' # other) => UNCHANGED RunVars]_vars
    /\ [][(RunVars' # RunVars) => other' = other]_vars

\* The first run has failed and stopped launching while the second, with
\* no failure of its own, is at its limit with callbacks in flight.
C34_Witness ==
    /\ frame # 0
    /\ other.frame # 0
    /\ done
    /\ errors # <<>>
    /\ other.pstate = "pending"
    /\ ~other.done
    /\ other.errors = <<>>
    /\ other.failures = <<>>
    /\ other.size >= 1
    /\ other.active = other.size
    /\ \E k \in 1..Len(other.calls) : other.calls[k].st = "ok"
    /\ Running(other.calls) # {}

====
